---- MODULE Spec2Model ----
(***************************************************************************)
(* A model of jishaku's Python feature (jsk py, jsk py_inspect, jsk repl,  *)
(* jsk retain) and of jsk cancel, as cooperative coroutines on one asyncio *)
(* event loop.                                                             *)
(*                                                                         *)
(* Scheduling.  `running` is the coroutine that holds the event loop (0    *)
(* when the loop is idle).  A coroutine is resumed only when running = 0,  *)
(* and the steps it takes before its next await are taken with             *)
(* running = p, so nothing interleaves with them.  The states with         *)
(* running = 0 are the states other coroutines can observe.                *)
(*                                                                         *)
(* Values.  A produced result is a number: None is 0, other results are    *)
(* 1..MaxVal.  The Message object the renderer gets back from ctx.send for *)
(* result v is Msg(v).  A Scope object is a number (its identity) indexing *)
(* `heap`, which holds its binding table.  An identity is in use while     *)
(* self._scope or a live frame refers to it; a Scope nobody refers to is   *)
(* garbage, its table is dropped and its identity may name a later object. *)
(***************************************************************************)
EXTENDS Integers, Sequences, FiniteSets, TLC

\* ---------------------------------------------------------------- bounds
NumProcs  == 2      \* command invocations (asyncio tasks) in one behaviour
MaxSteps  == 2      \* statements the executed code runs in one execution
MaxVal    == 1      \* produced results are None (0) or 1..MaxVal
MaxMsgs   == 2      \* qualifying messages one REPL session receives
MaxMentions == 2    \* users, channels and roles one message mentions
MaxIdle     == 2   \* ticks of the clock until wait_for times out

Procs    == 1..NumProcs
ScopeIds == 1..(NumProcs + 2)   \* one per invocation, the stored one, a new one
Channels == {1}
None     == 0
Results  == 0..MaxVal
Unbound  == -1
Msg(v)   == 10 + v

Kinds     == {"py", "pyi", "repl"}
ArgNames  == {"_", "ctx", "msg"}
UserNames == {"x"}
Names     == ArgNames \cup UserNames

VARIABLES
  retain,         \* self.retain
  _scope,         \* self._scope: the stored Scope object
  heap,           \* heap[s]: binding table of Scope object s (Unbound = no key)
  last_result,    \* self.last_result
  repl_sessions,  \* self.repl_sessions
  tasks,          \* self.tasks: sequence of CommandTask [index, task]
  task_count,     \* self.task_count
  frame,          \* frame[p]: locals and position of command coroutine p
  running,        \* the coroutine holding the event loop, 0 if none
  must_cancel,    \* must_cancel[p]: a cancel request is pending on task p
  hist,           \* hist[p]: what execution p produced, rendered, sent (history)
  reply,          \* what jsk cancel or jsk retain answered, if it was the last
                  \* step (history)
  req,            \* the execution request last built: what is handed to the executor
  mail            \* the message a session's check last looked at, if it was the
                  \* last step (history)

vars == <<retain, _scope, heap, last_result, repl_sessions, tasks, task_count,
          frame, running, must_cancel, hist, reply, req, mail>>

\* ------------------------------------------------------------ Scope objects
EmptyTable == [n \in Names |-> Unbound]

\* Scope.update(bindings): merge, overwriting on key collision.
update(table, bindings) ==
  [n \in Names |-> IF bindings[n] # Unbound THEN bindings[n] ELSE table[n]]

\* clear_intersection dropping a key only if the Scope still holds the value
\* that bindings has for it.
clear_intersection_same_value(table, bindings) ==
  [n \in Names |->
     IF bindings[n] # Unbound /\ table[n] = bindings[n] THEN Unbound ELSE table[n]]

\* Scope.clear_intersection(bindings): drop every key present in bindings.
clear_intersection(table, bindings) ==
  [n \in Names |-> IF bindings[n] # Unbound THEN Unbound ELSE table[n]]

Keys(table) == {n \in Names : table[n] # Unbound}

InUse(s) == s = _scope \/ \E p \in Procs : frame[p].scope = s

\* Scope(): a new object with an empty table; no reference to it exists yet.
NewScope == CHOOSE s \in ScopeIds : ~InUse(s) /\ \A t \in ScopeIds : ~InUse(t) => s <= t

\* The heap h once the Scopes that stored reference st and frames fr no longer
\* refer to have been dropped.
Collect(h, st, fr) ==
  [s \in ScopeIds |->
     IF s = st \/ \E p \in Procs : fr[p].scope = s THEN h[s] ELSE EmptyTable]

\* The property without its retention test: always the stored Scope.
scope_always_stored == _scope

\* The `scope` property: the stored Scope when retention is on, otherwise a
\* newly constructed Scope.
scope ==
  IF retain THEN _scope ELSE NewScope

\* get_var_dict_from_ctx(ctx, prefix): names derived from the invocation.
get_var_dict_from_ctx(p) ==
  [n \in Names |-> IF n = "ctx" THEN p ELSE Unbound]

\* ------------------------------------------------------------ mentions
\* A dict with no key.
EmptyDict == [k \in {} |-> k]

\* d[k] = v.
put(d, k, v) == [x \in DOMAIN d \cup {k} |-> IF x = k THEN v ELSE d[x]]

\* A user, channel or role, and the text that mentions it in a message
\* (<@id>, <#id>, <@&id>).
Entity(type, id) == [type |-> type, id |-> id]

mention(e) ==
  [mark |-> CASE e.type = "user" -> "<@"
              [] e.type = "channel" -> "<#"
              [] e.type = "role" -> "<@&",
   id |-> e.id]

\* f"{prefix}{index}".
Identifier(prefix, index) == [prefix |-> prefix, index |-> index]

\* The lists of length at most n without repetition over S.
RECURSIVE Lists(_, _)
Lists(S, n) ==
  IF n = 0 THEN {<<>>}
  ELSE LET shorter == Lists(S, n - 1) IN
       shorter \cup
         UNION {{Append(l, x) : x \in S \ {l[i] : i \in 1..Len(l)}} : l \in shorter}

\* What a message mentions: message.mentions, message.channel_mentions and
\* message.role_mentions, each a list of ids without repetition.
Messages ==
  {m \in [user : Lists(1..MaxMentions, MaxMentions),
          channel : Lists(1..MaxMentions, MaxMentions),
          role : Lists(1..MaxMentions, MaxMentions)] :
     Len(m.user) + Len(m.channel) + Len(m.role) <= MaxMentions}

NoMessage == [user |-> <<>>, channel |-> <<>>, role |-> <<>>]

\* No request was built yet; `held` is what an open REPL session keeps from
\* its start (kind "none" if no session is open).
NoArgs == [base |-> EmptyTable, synth |-> EmptyDict]

NoHeld == [open |-> FALSE, arg_dict |-> NoArgs, convertables |-> EmptyDict]

NoRequest ==
  [kind |-> "none", trigger |-> NoMessage, arg_dict |-> NoArgs,
   convertables |-> EmptyDict, built_with |-> Unbound, held |-> NoHeld]

\* ------------------------------------------------------------ frames
IdleFrame ==
  [pc |-> "idle", kind |-> "py", chan |-> 1, scope |-> 0,
   arg_dict |-> EmptyTable, item |-> Unbound, ret |-> Unbound,
   send_value |-> None, left |-> 0, msgs |-> 0, exc |-> "", content |-> "",
   waited |-> 0]

\* The history of one execution: the items the sequence produced (with what
\* the consumer did with each), the results handed to the rendering, the
\* values stored in last_result, the messages sent to the channel, the cancel
\* requests received; how it ended and what its finally block left behind.
\* `retained` is kept while the invocation lives: whether it got its Scope
\* with retention on.  `stale` is kept for good: whether the invocation began
\* before the latest switch of retention from OFF to ON.  `closed` is how a
\* jsk repl invocation stopped outside an execution: rejected, by the idle
\* timeout, by the exit command, or by a send that raised.
NoHist ==
  [items |-> <<>>, rendered |-> <<>>, stored |-> <<>>, chan |-> 0,
   cancels |-> 0, ended |-> "", cleared |-> FALSE, left_over |-> {},
   retained |-> FALSE, stale |-> FALSE, closed |-> ""]

Fresh(h) == [NoHist EXCEPT !.retained = h.retained, !.stale = h.stale]

\* A message as the session's check sees it: who sent it, where, whether its
\* content starts with "$", and the code it carries.
NoMail ==
  [to |-> 0, no_prefix |-> FALSE,
   m |-> [author |-> 0, channel |-> 0, dollar |-> FALSE, content |-> ""]]

NoReply == [what |-> "", n |-> 0, asked |-> [str |-> "", int |-> 0]]

\* A step of a command other than jsk cancel.
Silent == reply' = NoReply /\ mail' = NoMail /\ UNCHANGED req

Init ==
  /\ retain \in BOOLEAN              \* Flags.RETAIN
  /\ _scope = 1
  /\ heap = [s \in ScopeIds |-> EmptyTable]
  /\ last_result = None
  /\ repl_sessions = {}
  /\ tasks = <<>>
  /\ task_count = 0
  /\ frame = [p \in Procs |-> IdleFrame]
  /\ running = 0
  /\ must_cancel = [p \in Procs |-> FALSE]
  /\ hist = [p \in Procs |-> NoHist]
  /\ reply = NoReply
  /\ req = NoRequest /\ mail = NoMail

\* ------------------------------------------------------------ jsk retain
\* jsk retain without `self._scope = Scope()`: switching retention on brings
\* back the Scope stored before.
jsk_retain_resurrect(toggle) ==
  /\ running = 0
  /\ retain' = (IF toggle = "none" THEN retain ELSE toggle = "on")
  /\ hist' = [p \in Procs |->
                IF ~retain /\ retain' /\ frame[p].pc # "idle"
                  THEN [hist[p] EXCEPT !.stale = TRUE] ELSE hist[p]]
  /\ UNCHANGED <<_scope, heap, last_result, repl_sessions, tasks, task_count,
                 frame, running, must_cancel>>

\* toggle is "none" (no argument), "on" or "off".  The handler's only await
\* is the final ctx.send, after every assignment.
\* jsk_retain whose ON branch does not look at the current mode: it stores
\* a new Scope every time.
jsk_retain_always_new(toggle) ==
  /\ running = 0
  /\ IF toggle = "none"
       THEN UNCHANGED <<retain, _scope, heap>>
     ELSE IF toggle = "on"
       THEN /\ retain' = TRUE
            /\ _scope' = NewScope
            /\ heap' = Collect(heap, NewScope, frame)
     ELSE IF ~retain
       THEN UNCHANGED <<retain, _scope, heap>>
       ELSE /\ retain' = FALSE
            /\ UNCHANGED <<_scope, heap>>
  /\ hist' = [p \in Procs |->
                IF ~retain /\ retain' /\ frame[p].pc # "idle"
                  THEN [hist[p] EXCEPT !.stale = TRUE] ELSE hist[p]]
  /\ UNCHANGED <<last_result, repl_sessions, tasks, task_count, frame,
                 running, must_cancel>>

jsk_retain(toggle) ==
  /\ running = 0
  /\ IF toggle = "none"
       THEN UNCHANGED <<retain, _scope, heap>>
     ELSE IF toggle = "on"
       THEN IF retain
              THEN UNCHANGED <<retain, _scope, heap>>
              ELSE /\ retain' = TRUE
                   /\ _scope' = NewScope
                   /\ heap' = Collect(heap, NewScope, frame)
     ELSE IF ~retain
       THEN UNCHANGED <<retain, _scope, heap>>
       ELSE /\ retain' = FALSE
            /\ UNCHANGED <<_scope, heap>>
  /\ hist' = [p \in Procs |->
                IF ~retain /\ retain' /\ frame[p].pc # "idle"
                  THEN [hist[p] EXCEPT !.stale = TRUE] ELSE hist[p]]
  /\ UNCHANGED <<last_result, repl_sessions, tasks, task_count, frame,
                 running, must_cancel>>

\* ------------------------------------------------------------ task registry
\* Feature.submit, entering: a CommandTask with the next index is appended.
submit_enter(p) ==
  /\ task_count' = task_count + 1
  /\ tasks' = Append(tasks, [index |-> task_count + 1, task |-> p])

\* Feature.submit, leaving: the CommandTask is removed if it is still listed.
submit_exit(p) ==
  tasks' = SelectSeq(tasks, LAMBDA t : t.task # p)

Listed(p) == \E i \in 1..Len(tasks) : tasks[i].task = p

\* ------------------------------------------------------------ starting
\* jsk py / jsk py_inspect up to the first await (ReplResponseReactor's
\* __aenter__): the argument dict, then the Scope.
StartCommand(p, k) ==
  /\ frame' = [frame EXCEPT ![p] =
       [IdleFrame EXCEPT !.pc = "enter", !.kind = k, !.scope = scope,
          !.arg_dict = [get_var_dict_from_ctx(p) EXCEPT !["_"] = last_result],
          !.left = MaxSteps]]
  /\ hist' = [hist EXCEPT ![p] = [NoHist EXCEPT !.retained = retain]]
  /\ UNCHANGED <<retain, _scope, heap, last_result, repl_sessions, tasks,
                 task_count, running, must_cancel>>

jsk_python(p) ==
  /\ running = 0 /\ frame[p].pc = "idle"
  /\ StartCommand(p, "py")

jsk_python_inspect(p) ==
  /\ running = 0 /\ frame[p].pc = "idle"
  /\ StartCommand(p, "pyi")

\* ------------------------------------------------------------ history
LastItem(p) == Len(hist[p].items)

NoteItem(h, v) ==
  [h EXCEPT !.items = Append(@, [v |-> v, shown |-> FALSE, sends |-> 0,
                                 back |-> Unbound])]

\* ------------------------------------------------------------ entering
\* __aenter__ returned: `with self.submit(ctx)` registers the task and the
\* AsyncCodeExecutor is built on (code, scope, arg_dict); the executor puts
\* the argument bindings into the Scope before the code runs.  The first
\* __anext__ then drives the code without an await in between.
enter(p) ==
  /\ running = 0 /\ frame[p].pc = "enter"
  /\ submit_enter(p)
  /\ heap' = [heap EXCEPT ![frame[p].scope] = update(@, frame[p].arg_dict)]
  /\ frame' = [frame EXCEPT ![p].pc = "drive"]
  /\ running' = p
  /\ UNCHANGED <<retain, _scope, last_result, repl_sessions, must_cancel,
                 hist>>

\* ------------------------------------------------------------ the executor
\* One statement of the executed code assigns a name in the Scope.
exec_assign(p) ==
  /\ running = p /\ frame[p].pc = "drive" /\ frame[p].left > 0
  /\ \E n \in UserNames :
       heap' = [heap EXCEPT ![frame[p].scope][n] = p]
  /\ frame' = [frame EXCEPT ![p].left = @ - 1]
  /\ UNCHANGED <<retain, _scope, last_result, repl_sessions, tasks, task_count,
                 running, must_cancel, hist>>

\* The executed code reaches a wait point of its own: the task is suspended.
exec_await(p) ==
  /\ running = p /\ frame[p].pc = "drive" /\ frame[p].left > 0
  /\ frame' = [frame EXCEPT ![p].left = @ - 1, ![p].pc = "wait"]
  /\ running' = 0
  /\ UNCHANGED <<retain, _scope, heap, last_result, repl_sessions, tasks,
                 task_count, must_cancel, hist>>

\* A bare expression statement: the sequence produces its value v.
exec_yield(p, v) ==
  /\ running = p /\ frame[p].pc = "drive" /\ frame[p].left > 0
  /\ frame' = [frame EXCEPT ![p].left = @ - 1, ![p].pc = "item", ![p].item = v]
  /\ hist' = [hist EXCEPT ![p] = NoteItem(@, v)]
  /\ UNCHANGED <<retain, _scope, heap, last_result, repl_sessions, tasks,
                 task_count, running, must_cancel>>

\* The code runs to its end: the sequence is exhausted.
exec_return(p) ==
  /\ running = p /\ frame[p].pc = "drive"
  /\ frame' = [frame EXCEPT ![p].pc = "unwind", ![p].exc = ""]
  /\ UNCHANGED <<retain, _scope, heap, last_result, repl_sessions, tasks,
                 task_count, running, must_cancel, hist>>

\* The code raises: the exception leaves the sequence unchanged.
exec_raise(p) ==
  /\ running = p /\ frame[p].pc = "drive" /\ frame[p].left > 0
  /\ frame' = [frame EXCEPT ![p].left = @ - 1, ![p].pc = "unwind",
                            ![p].exc = "error"]
  /\ UNCHANGED <<retain, _scope, heap, last_result, repl_sessions, tasks,
                 task_count, running, must_cancel, hist>>

\* AsyncSender's next step: the executor is resumed with the value given to
\* send for the current item, or with no value (None) if send was not called.
advance(p) ==
  /\ running = p /\ frame[p].pc = "advance"
  /\ hist' = [hist EXCEPT ![p].items[LastItem(p)].back = frame[p].send_value]
  /\ frame' = [frame EXCEPT ![p].pc = "drive", ![p].send_value = None,
                            ![p].item = Unbound, ![p].ret = Unbound]
  /\ UNCHANGED <<retain, _scope, heap, last_result, repl_sessions, tasks,
                 task_count, running, must_cancel>>

\* ------------------------------------------------------------ the consumers
\* `continue`: the loop takes the next item without calling send.
SkipItem(p) ==
  /\ frame' = [frame EXCEPT ![p].pc = "advance"]
  /\ UNCHANGED <<last_result, hist, running>>

\* self.last_result = result, then the rendering up to its await of ctx.send.
ShowItem(p) ==
  /\ last_result' = frame[p].item
  /\ hist' = [hist EXCEPT ![p].stored = Append(@, frame[p].item),
                          ![p].rendered = Append(@, frame[p].item),
                          ![p].chan = @ + 1,
                          ![p].items[LastItem(p)].shown = TRUE]
  /\ frame' = [frame EXCEPT ![p].pc = "render"]
  /\ running' = 0

\* The loop body of jsk py for one (send, result).
jsk_python_item(p) ==
  IF frame[p].item = None THEN SkipItem(p) ELSE ShowItem(p)

\* The loop body of jsk py_inspect for one (send, result).
jsk_python_inspect_item(p) ==
  ShowItem(p)

\* The loop body of a REPL message's execution for one (send, result).
jsk_repl_item(p) ==
  IF frame[p].item = None THEN SkipItem(p) ELSE ShowItem(p)

consume(p) ==
  /\ running = p /\ frame[p].pc = "item"
  /\ CASE frame[p].kind = "py"   -> jsk_python_item(p)
       [] frame[p].kind = "pyi"  -> jsk_python_inspect_item(p)
       [] frame[p].kind = "repl" -> jsk_repl_item(p)
  /\ UNCHANGED <<retain, _scope, heap, repl_sessions, tasks, task_count,
                 must_cancel>>

\* A pending cancel request is delivered when the task is next resumed:
\* CancelledError is raised at the await the task is suspended in.
Cancelled(p) ==
  /\ must_cancel' = [must_cancel EXCEPT ![p] = FALSE]
  /\ frame' = [frame EXCEPT ![p].pc = "unwind", ![p].exc = "cancelled"]
  /\ running' = p

\* The rendering's await wrapped so that a cancellation is swallowed: the
\* loop goes on as if ctx.send had returned.
render_return_shielded(p, ok) ==
  /\ running = 0 /\ frame[p].pc = "render"
  /\ frame' = IF ok
       THEN [frame EXCEPT ![p].pc = "rendered", ![p].ret = Msg(frame[p].item)]
       ELSE [frame EXCEPT ![p].pc = "unwind", ![p].exc = "error"]
  /\ running' = p
  /\ must_cancel' = [must_cancel EXCEPT ![p] = FALSE]
  /\ UNCHANGED <<retain, _scope, heap, last_result, repl_sessions, tasks,
                 task_count, hist>>

\* The await inside the rendering ends: ctx.send returned the Message (ok),
\* or raised, or the task was cancelled while suspended there.
render_return(p, ok) ==
  /\ running = 0 /\ frame[p].pc = "render"
  /\ IF must_cancel[p]
       THEN Cancelled(p)
       ELSE /\ frame' = IF ok
                 THEN [frame EXCEPT ![p].pc = "rendered",
                                    ![p].ret = Msg(frame[p].item)]
                 ELSE [frame EXCEPT ![p].pc = "unwind", ![p].exc = "error"]
            /\ running' = p
            /\ UNCHANGED must_cancel
  /\ UNCHANGED <<retain, _scope, heap, last_result, repl_sessions, tasks,
                 task_count, hist>>

\* The loop body without its call of send: the rendering's return value is
\* dropped.
send_back_dropped(p) ==
  /\ running = p /\ frame[p].pc = "rendered"
  /\ frame' = [frame EXCEPT ![p].pc = "advance"]
  /\ UNCHANGED <<retain, _scope, heap, last_result, repl_sessions, tasks,
                 task_count, running, must_cancel, hist>>

\* send(<what the rendering returned>), the last statement of the loop body.
send_back(p) ==
  /\ running = p /\ frame[p].pc = "rendered"
  /\ frame' = [frame EXCEPT ![p].pc = "advance", ![p].send_value = frame[p].ret]
  /\ hist' = [hist EXCEPT ![p].items[LastItem(p)].sends = @ + 1]
  /\ UNCHANGED <<retain, _scope, heap, last_result, repl_sessions, tasks,
                 task_count, running, must_cancel>>

\* The executed code's own await ends, or the task was cancelled there: the
\* sequence then ends without producing anything more.
resume_wait(p) ==
  /\ running = 0 /\ frame[p].pc = "wait"
  /\ IF must_cancel[p]
       THEN Cancelled(p)
       ELSE /\ frame' = [frame EXCEPT ![p].pc = "drive"]
            /\ running' = p
            /\ UNCHANGED must_cancel
  /\ UNCHANGED <<retain, _scope, heap, last_result, repl_sessions, tasks,
                 task_count, hist>>

\* Leaving `with self.submit(ctx)` and then awaiting the reactor's __aexit__.
\* The executor and the sender are finished with: their history ends here.
unwind(p) ==
  /\ running = p /\ frame[p].pc = "unwind"
  /\ submit_exit(p)
  /\ frame' = [frame EXCEPT ![p].pc = "exit", ![p].left = 0,
                            ![p].item = Unbound, ![p].ret = Unbound,
                            ![p].send_value = None]
  /\ hist' = [hist EXCEPT ![p] = Fresh(@)]
  /\ running' = 0
  /\ UNCHANGED <<retain, _scope, heap, last_result, repl_sessions, task_count,
                 must_cancel>>

\* ------------------------------------------------------------ finally
\* The cleanup written after the loop instead of in a finally block: it is
\* skipped when an exception or a cancellation leaves the try statement.
clear_after_loop(p) ==
  IF frame[p].exc = ""
    THEN [table   |-> clear_intersection(heap[frame[p].scope], frame[p].arg_dict),
          cleared |-> TRUE]
    ELSE [table |-> heap[frame[p].scope], cleared |-> FALSE]

\* `finally: scope.clear_intersection(arg_dict)`: the table of the frame's
\* Scope after the finally block, and that clear_intersection was applied.
finally_clear(p) ==
  [table   |-> clear_intersection(heap[frame[p].scope], frame[p].arg_dict),
   cleared |-> TRUE]

\* The frame of a command that returned: its locals are gone.
Ended(f) == [IdleFrame EXCEPT !.pc = "done"]

\* The command's try statement is left, `fin` being what its finally block
\* did; then the command returns (goto "done") or the REPL loop goes on.
Leave(p, fin, how, goto) ==
  LET fr == IF goto = "done"
              THEN [frame EXCEPT ![p] = Ended(@)]
              ELSE [frame EXCEPT ![p].pc = goto, ![p].exc = "", ![p].content = ""]
  IN /\ frame' = fr
     /\ heap' = Collect([heap EXCEPT ![frame[p].scope] = fin.table], _scope, fr)
     /\ hist' = [hist EXCEPT ![p] =
                   [Fresh(@) EXCEPT !.ended = how, !.cleared = fin.cleared,
                      !.left_over = Keys(fin.table) \cap Keys(frame[p].arg_dict),
                      !.retained = IF goto = "done" THEN FALSE ELSE @]]

How(p) == IF frame[p].exc = "" THEN "returned" ELSE frame[p].exc

\* __aexit__ returned: the finally block runs and the command returns.  In a
\* REPL session the loop goes on to the next message unless an exception is
\* still propagating (the reactor may or may not have suppressed it).
finish(p) ==
  /\ running = 0 /\ frame[p].pc = "exit"
  /\ IF frame[p].kind = "repl"
       THEN \E suppressed \in BOOLEAN :
              Leave(p, finally_clear(p), How(p),
                    IF frame[p].exc = "" \/ suppressed THEN "listen" ELSE "done")
       ELSE Leave(p, finally_clear(p), How(p), "done")
  /\ UNCHANGED <<retain, _scope, last_result, repl_sessions, tasks, task_count,
                 running, must_cancel>>

\* __aenter__ raised: nothing was submitted, the finally block runs and the
\* exception leaves the command.
enter_fail(p) ==
  /\ running = 0 /\ frame[p].pc = "enter"
  /\ Leave(p, finally_clear(p), "error", "done")
  /\ UNCHANGED <<retain, _scope, last_result, repl_sessions, tasks, task_count,
                 running, must_cancel>>

\* ------------------------------------------------------------ jsk cancel
\* The index argument: an integer, or a string that is no integer.
IntIndex(n) == [str |-> "", int |-> n]
StrIndex(t) == [str |-> t, int |-> 0]

\* task.task.cancel() for every CommandTask of the sequence ts.
cancel_all(ts) ==
  LET hit(p) == \E i \in 1..Len(ts) : ts[i].task = p IN
  /\ must_cancel' = [p \in Procs |-> must_cancel[p] \/ hit(p)]
  /\ hist' = [p \in Procs |->
                IF hit(p) THEN [hist[p] EXCEPT !.cancels = @ + 1] ELSE hist[p]]

RemoveAt(ts, i) == SubSeq(ts, 1, i - 1) \o SubSeq(ts, i + 1, Len(ts))

\* discord.utils.get(self.tasks, index=n): position of the first match, or 0.
get(ts, n) ==
  LET hits == {i \in 1..Len(ts) : ts[i].index = n} IN
  IF hits = {} THEN 0 ELSE CHOOSE i \in hits : \A j \in hits : i <= j

\* The "~" branch counting after self.tasks.clear() instead of before.
cancel_every_count_late(ts) ==
  [cancelled |-> ts, count |-> Len(SubSeq(ts, 1, 0)), rest |-> SubSeq(ts, 1, 0)]

\* The "~" branch: the count is taken, every listed task is cancelled, the
\* list is cleared.
cancel_every(ts) ==
  [cancelled |-> ts, count |-> Len(ts), rest |-> SubSeq(ts, 1, 0)]

\* pop(0) in place of pop(): the oldest task instead of the latest.
pop_first(ts) ==
  [task |-> ts[1], rest |-> SubSeq(ts, 2, Len(ts))]

\* self.tasks.pop(): the last CommandTask of the list, removed from it.
pop(ts) ==
  [task |-> ts[Len(ts)], rest |-> SubSeq(ts, 1, Len(ts) - 1)]

\* The lookup without its `if task:` test: a missing index is treated like
\* the last task.
remove_unchecked(ts, n) ==
  LET i == IF get(ts, n) = 0 THEN Len(ts) ELSE get(ts, n) IN
  [found |-> TRUE, task |-> ts[i], rest |-> RemoveAt(ts, i)]

\* discord.utils.get by index, then self.tasks.remove(task) if one was found.
remove(ts, n) ==
  LET i == get(ts, n) IN
  IF i = 0
    THEN [found |-> FALSE, task |-> ts[1], rest |-> ts]
    ELSE [found |-> TRUE, task |-> ts[i], rest |-> RemoveAt(ts, i)]

\* jsk cancel: no await before the final ctx.send.
\* jsk_cancel testing the string indexes before the empty registry.
jsk_cancel_strings_first(index) ==
  /\ running = 0
  /\ IF index.str = "~"
       THEN LET r == cancel_every(tasks) IN
            /\ cancel_all(r.cancelled)
            /\ tasks' = r.rest
            /\ reply' = [what |-> "Cancelled tasks.", n |-> r.count, asked |-> index]
     ELSE IF index.str # ""
       THEN /\ reply' = [what |-> "BadArgument", n |-> 0, asked |-> index]
            /\ UNCHANGED <<tasks, must_cancel, hist>>
     ELSE IF tasks = <<>>
       THEN /\ reply' = [what |-> "No tasks to cancel.", n |-> 0, asked |-> index]
            /\ UNCHANGED <<tasks, must_cancel, hist>>
     ELSE IF index.int = -1
       THEN LET r == pop(tasks) IN
            /\ tasks' = r.rest
            /\ cancel_all(<<r.task>>)
            /\ reply' = [what |-> "Cancelled task.", n |-> r.task.index, asked |-> index]
     ELSE LET r == remove(tasks, index.int) IN
          IF r.found
            THEN /\ tasks' = r.rest
                 /\ cancel_all(<<r.task>>)
                 /\ reply' = [what |-> "Cancelled task.", n |-> r.task.index,
                              asked |-> index]
            ELSE /\ reply' = [what |-> "Unknown task.", n |-> 0, asked |-> index]
                 /\ UNCHANGED <<tasks, must_cancel, hist>>
  /\ UNCHANGED <<retain, _scope, heap, last_result, repl_sessions, task_count,
                 frame, running, req, mail>>

jsk_cancel(index) ==
  /\ running = 0
  /\ IF tasks = <<>>
       THEN /\ reply' = [what |-> "No tasks to cancel.", n |-> 0, asked |-> index]
            /\ UNCHANGED <<tasks, must_cancel, hist>>
     ELSE IF index.str = "~"
       THEN LET r == cancel_every(tasks) IN
            /\ cancel_all(r.cancelled)
            /\ tasks' = r.rest
            /\ reply' = [what |-> "Cancelled tasks.", n |-> r.count, asked |-> index]
     ELSE IF index.str # ""
       THEN /\ reply' = [what |-> "BadArgument", n |-> 0, asked |-> index]
            /\ UNCHANGED <<tasks, must_cancel, hist>>
     ELSE IF index.int = -1
       THEN LET r == pop(tasks) IN
            /\ tasks' = r.rest
            /\ cancel_all(<<r.task>>)
            /\ reply' = [what |-> "Cancelled task.", n |-> r.task.index, asked |-> index]
     ELSE LET r == remove(tasks, index.int) IN
          IF r.found
            THEN /\ tasks' = r.rest
                 /\ cancel_all(<<r.task>>)
                 /\ reply' = [what |-> "Cancelled task.", n |-> r.task.index,
                              asked |-> index]
            ELSE /\ reply' = [what |-> "Unknown task.", n |-> 0, asked |-> index]
                 /\ UNCHANGED <<tasks, must_cancel, hist>>
  /\ UNCHANGED <<retain, _scope, heap, last_result, repl_sessions, task_count,
                 frame, running, req, mail>>

\* ------------------------------------------------------------ jsk repl
\* What a qualifying message holds once codeblock_converter has stripped it.
Contents == {"code", "exit()", "ext()", "quit()", "exit", "quit"}

\* jsk repl without its test of repl_sessions: a session is always started.
jsk_repl_unchecked(p, c) ==
  /\ running = 0 /\ frame[p].pc = "idle"
  /\ frame' = [frame EXCEPT ![p] =
       [IdleFrame EXCEPT
          !.pc = "banner", !.kind = "repl", !.chan = c, !.scope = scope,
          !.arg_dict = [get_var_dict_from_ctx(p) EXCEPT !["_"] = last_result]]]
  /\ repl_sessions' = repl_sessions \cup {c}
  /\ hist' = [hist EXCEPT ![p] = [NoHist EXCEPT !.retained = retain]]
  /\ UNCHANGED <<retain, _scope, heap, last_result, tasks, task_count, running,
                 must_cancel>>

\* jsk repl up to its first await: the argument dict, the Scope, the test of
\* repl_sessions and, if the channel is free, its marking.
jsk_repl(p, c) ==
  /\ running = 0 /\ frame[p].pc = "idle"
  /\ frame' = [frame EXCEPT ![p] =
       [IdleFrame EXCEPT
          !.pc = IF c \in repl_sessions THEN "reject" ELSE "banner",
          !.kind = "repl", !.chan = c, !.scope = scope,
          !.arg_dict = [get_var_dict_from_ctx(p) EXCEPT !["_"] = last_result]]]
  /\ repl_sessions' = repl_sessions \cup {c}
  /\ hist' = [hist EXCEPT ![p] = [NoHist EXCEPT !.retained = retain]]
  /\ UNCHANGED <<retain, _scope, heap, last_result, tasks, task_count, running,
                 must_cancel>>

\* "Already running an interactive shell" was sent (or the send raised): the
\* command returns.
repl_rejected(p) ==
  /\ running = 0 /\ frame[p].pc = "reject"
  /\ LET fr == [frame EXCEPT ![p] = Ended(@)] IN
       frame' = fr /\ heap' = Collect(heap, _scope, fr)
  /\ hist' = [hist EXCEPT ![p].closed = "rejected", ![p].retained = FALSE]
  /\ UNCHANGED <<retain, _scope, last_result, repl_sessions, tasks,
                 task_count, running, must_cancel>>

\* An await of ctx.send outside any try statement ends by raising: the
\* exception leaves jsk_repl at once, whatever statement comes next.
send_raises(p) ==
  /\ LET fr == [frame EXCEPT ![p] = Ended(@)] IN
       frame' = fr /\ heap' = Collect(heap, _scope, fr)
  /\ hist' = [hist EXCEPT ![p].closed = "send failed", ![p].retained = FALSE]
  /\ UNCHANGED repl_sessions

\* The await of the banner's ctx.send ends: the loop awaits its first message.
repl_banner(p, ok) ==
  /\ running = 0 /\ frame[p].pc = "banner"
  /\ IF ok
       THEN /\ frame' = [frame EXCEPT ![p].pc = "listen"]
            /\ UNCHANGED <<heap, hist, repl_sessions>>
       ELSE send_raises(p)
  /\ UNCHANGED <<retain, _scope, last_result, tasks, task_count, running,
                 must_cancel>>

\* wait_for timed out: the handler awaits the send of "Exiting...".
repl_timeout(p) ==
  /\ running = 0 /\ frame[p].pc = "listen"
  /\ frame' = [frame EXCEPT ![p].pc = "idle out"]
  /\ UNCHANGED <<retain, _scope, heap, last_result, repl_sessions, tasks,
                 task_count, running, must_cancel, hist>>

\* The await of "Exiting..." ends: self.repl_sessions.remove(ctx.channel.id),
\* then break (after a timeout) or return (after an exit command).
repl_leave(p, ok, how) ==
  /\ running = 0
  /\ IF ok
       THEN /\ repl_sessions' = repl_sessions \ {frame[p].chan}
            /\ LET fr == [frame EXCEPT ![p] = Ended(@)] IN
                 frame' = fr /\ heap' = Collect(heap, _scope, fr)
            /\ hist' = [hist EXCEPT ![p].closed = how, ![p].retained = FALSE]
       ELSE send_raises(p)
  /\ UNCHANGED <<retain, _scope, last_result, tasks, task_count, running,
                 must_cancel>>

\* After the timeout: "Exiting..." was sent, the channel is released, break.
repl_idle_out(p, ok) ==
  /\ frame[p].pc = "idle out"
  /\ repl_leave(p, ok, "timeout")

\* After an exit command: "Exiting..." was sent, the channel is released,
\* return.
repl_bye(p, ok) ==
  /\ frame[p].pc = "bye"
  /\ repl_leave(p, ok, "exit")

\* `argument.content in ("ext()", "quit()")`.
is_exit_call(content) == content \in {"ext()", "quit()"}

\* `argument.content in ("exit", "quit")`.
is_exit_word(content) == content \in {"exit", "quit"}

\* repl_message taking self.scope anew for every message that is executed.
repl_message_scope_per_message(p, content) ==
  /\ running = 0 /\ frame[p].pc = "listen" /\ frame[p].msgs < MaxMsgs
  /\ frame' =
       IF is_exit_call(content)
         THEN [frame EXCEPT ![p].msgs = @ + 1, ![p].pc = "bye", ![p].waited = 0,
                            ![p].content = content]
       ELSE IF is_exit_word(content)
         THEN [frame EXCEPT ![p].msgs = @ + 1, ![p].pc = "hint", ![p].waited = 0,
                            ![p].content = content]
       ELSE [frame EXCEPT ![p].msgs = @ + 1, ![p].pc = "enter", ![p].waited = 0,
                          ![p].content = content,
                          ![p].arg_dict["msg"] = frame[p].msgs + 1,
                          ![p].left = MaxSteps,
                          ![p].scope = scope]
  /\ hist' = IF is_exit_call(content) \/ is_exit_word(content)
               THEN hist ELSE [hist EXCEPT ![p] = Fresh(@)]
  /\ UNCHANGED <<retain, _scope, heap, last_result, repl_sessions, tasks,
                 task_count, running, must_cancel>>

\* wait_for returned a qualifying message whose stripped content is `content`.
repl_message(p, content) ==
  /\ running = 0 /\ frame[p].pc = "listen" /\ frame[p].msgs < MaxMsgs
  /\ frame' =
       IF is_exit_call(content)
         THEN [frame EXCEPT ![p].msgs = @ + 1, ![p].pc = "bye", ![p].waited = 0,
                            ![p].content = content]
       ELSE IF is_exit_word(content)
         THEN [frame EXCEPT ![p].msgs = @ + 1, ![p].pc = "hint", ![p].waited = 0,
                            ![p].content = content]
       ELSE [frame EXCEPT ![p].msgs = @ + 1, ![p].pc = "enter", ![p].waited = 0,
                          ![p].content = content,
                          ![p].arg_dict["msg"] = frame[p].msgs + 1,
                          ![p].left = MaxSteps]
  /\ hist' = IF is_exit_call(content) \/ is_exit_word(content)
               THEN hist ELSE [hist EXCEPT ![p] = Fresh(@)]
  /\ UNCHANGED <<retain, _scope, heap, last_result, repl_sessions, tasks,
                 task_count, running, must_cancel>>

\* The await of "Use exit() to exit." ends: continue.
repl_hint(p, ok) ==
  /\ running = 0 /\ frame[p].pc = "hint"
  /\ IF ok
       THEN /\ frame' = [frame EXCEPT ![p].pc = "listen", ![p].content = ""]
            /\ UNCHANGED <<heap, hist, repl_sessions>>
       ELSE send_raises(p)
  /\ UNCHANGED <<retain, _scope, last_result, tasks, task_count, running,
                 must_cancel>>

\* ------------------------------------------------------------ requests
\* What each command hands to AsyncCodeExecutor, as a function of the
\* messages involved: the argument dict (the names of get_var_dict_from_ctx
\* and `_` in `base`, the synthetic identifiers in `synth`) and the
\* convertables (mention text -> synthetic identifier).

\* One `for index, x in enumerate(list)` loop of jsk_python_get_convertables,
\* from position i on.
RECURSIVE enumerate_mentions(_, _, _, _, _)
enumerate_mentions(acc, list, i, type, prefix) ==
  IF i > Len(list) THEN acc
  ELSE enumerate_mentions(
         [arg_dict |-> put(acc.arg_dict, Identifier(prefix, i - 1),
                           Entity(type, list[i])),
          convertables |-> put(acc.convertables, mention(Entity(type, list[i])),
                               Identifier(prefix, i - 1))],
         list, i + 1, type, prefix)

\* jsk_python_get_convertables with one prefix for every kind of mention.
jsk_python_get_convertables_one_prefix(p, message) ==
  LET none == [arg_dict |-> EmptyDict, convertables |-> EmptyDict]
      users == enumerate_mentions(none, message.user, 1, "user", "__mention_")
      channels == enumerate_mentions(users, message.channel, 1, "channel",
                                     "__mention_")
      roles == enumerate_mentions(channels, message.role, 1, "role",
                                  "__mention_")
  IN [arg_dict |-> [base |-> [get_var_dict_from_ctx(p) EXCEPT !["_"] = last_result],
                    synth |-> roles.arg_dict],
      convertables |-> roles.convertables]

\* jsk_python_get_convertables(ctx), `message` being ctx.message.
jsk_python_get_convertables(p, message) ==
  LET none == [arg_dict |-> EmptyDict, convertables |-> EmptyDict]
      users == enumerate_mentions(none, message.user, 1, "user",
                                  "__user_mention_")
      channels == enumerate_mentions(users, message.channel, 1, "channel",
                                     "__channel_mention_")
      roles == enumerate_mentions(channels, message.role, 1, "role",
                                  "__role_mention_")
  IN [arg_dict |-> [base |-> [get_var_dict_from_ctx(p) EXCEPT !["_"] = last_result],
                    synth |-> roles.arg_dict],
      convertables |-> roles.convertables]

RequestOnly ==
  UNCHANGED <<retain, _scope, heap, last_result, repl_sessions, tasks,
              task_count, frame, running, must_cancel, hist, reply, mail>>

\* jsk py / jsk py_inspect, invoked by `message`: the dict of
\* get_var_dict_from_ctx plus `_`; the executor is given no convertables.
python_request(p, k, message) ==
  /\ ~req.held.open
  /\ req' = [req EXCEPT
       !.kind = k, !.trigger = message,
       !.arg_dict = [base |-> [get_var_dict_from_ctx(p) EXCEPT !["_"] = last_result],
                     synth |-> EmptyDict],
       !.convertables = EmptyDict,
       !.built_with = last_result]
  /\ RequestOnly

jsk_python_request(p, message) == python_request(p, "py", message)

jsk_python_inspect_request(p, message) == python_request(p, "pyi", message)

\* jsk repl, invoked by `message`: the dict and the convertables are built
\* once and kept for the session.
jsk_repl_request(p, message) ==
  /\ ~req.held.open
  /\ LET built == jsk_python_get_convertables(p, message) IN
       req' = [req EXCEPT
         !.kind = "session", !.trigger = message,
         !.arg_dict = built.arg_dict, !.convertables = built.convertables,
         !.built_with = last_result,
         !.held = [open |-> TRUE, arg_dict |-> built.arg_dict,
                   convertables |-> built.convertables]]
  /\ RequestOnly

\* A message of the session, `message`, is handed to the executor with the
\* session's dict (its msg entry updated) and the session's convertables.
jsk_repl_message_request(message) ==
  /\ req.held.open
  /\ req' = [req EXCEPT
       !.kind = "repl", !.trigger = message,
       !.arg_dict = [req.held.arg_dict EXCEPT !.base["msg"] = 1],
       !.convertables = req.held.convertables]
  /\ RequestOnly

\* The session ends.
jsk_repl_end_request ==
  /\ req.held.open
  /\ req' = [req EXCEPT !.kind = "none", !.held = NoHeld]
  /\ RequestOnly

\* A result is recorded between two requests.
record_result(v) ==
  /\ last_result' = v
  /\ UNCHANGED <<retain, _scope, heap, repl_sessions, tasks, task_count, frame,
                 running, must_cancel, hist, reply, req, mail>>

\* ------------------------------------------------------------ behaviours
Execute ==
  \E p \in Procs :
    \/ enter(p)
    \/ enter_fail(p)
    \/ exec_assign(p)
    \/ exec_await(p)
    \/ \E v \in Results : exec_yield(p, v)
    \/ exec_return(p)
    \/ exec_raise(p)
    \/ consume(p)
    \/ \E ok \in BOOLEAN : render_return(p, ok)
    \/ send_back(p)
    \/ advance(p)
    \/ resume_wait(p)
    \/ unwind(p)
    \/ finish(p)

ReplStep ==
  \E p \in Procs :
    \/ repl_rejected(p)
    \/ \E ok \in BOOLEAN : repl_banner(p, ok)
    \/ repl_timeout(p)
    \/ \E ok \in BOOLEAN : repl_idle_out(p, ok)
    \/ \E ok \in BOOLEAN : repl_bye(p, ok)
    \/ \E content \in Contents : repl_message(p, content)
    \/ \E ok \in BOOLEAN : repl_hint(p, ok)

Indexes ==
  {IntIndex(n) : n \in -2..(task_count + 1)} \cup {StrIndex("~"), StrIndex("all")}

Start ==
  \E p \in Procs :
    \/ jsk_python(p)
    \/ jsk_python_inspect(p)
    \/ \E c \in Channels : jsk_repl(p, c)

Retain == \E toggle \in {"none", "on", "off"} : jsk_retain(toggle)

Cancel == \E index \in Indexes : jsk_cancel(index)

\* Every command, interleaved at every await.
Next ==
  \/ (Start \/ Execute \/ ReplStep \/ Retain) /\ Silent
  \/ Cancel

Spec == Init /\ [][Next]_vars

\* One execution at a time: a command is invoked only when no other command
\* is in flight; jsk cancel may be invoked at every await.
Solo == \A q \in Procs : frame[q].pc \in {"idle", "done"}

NextSolo ==
  \/ ((Solo /\ Start) \/ Execute \/ ReplStep) /\ Silent
  \/ Cancel

SpecSolo == Init /\ [][NextSolo]_vars

\* Scopes: jsk py and jsk py_inspect invocations whose code assigns, awaits,
\* returns or raises, interleaved with each other and with jsk retain.
ExecuteQuiet ==
  \E p \in Procs :
    \/ enter(p)
    \/ exec_assign(p)
    \/ exec_await(p)
    \/ exec_return(p)
    \/ exec_raise(p)
    \/ resume_wait(p)
    \/ unwind(p)
    \/ finish(p)

StartPy ==
  \E p \in Procs :
    \/ jsk_python(p)
    \/ jsk_python_inspect(p)

NextScope ==
  (StartPy \/ ExecuteQuiet \/ Retain) /\ Silent

SpecScope == Init /\ [][NextScope]_vars

\* The task registry: jsk py invocations whose code awaits and returns,
\* interleaved with each other and with jsk cancel.
ExecuteWait ==
  \E p \in Procs :
    \/ enter(p)
    \/ exec_await(p)
    \/ exec_return(p)
    \/ resume_wait(p)
    \/ unwind(p)
    \/ finish(p)

NextTasks ==
  \/ ((\E p \in Procs : jsk_python(p)) \/ ExecuteWait) /\ Silent
  \/ Cancel

SpecTasks == Init /\ [][NextTasks]_vars

\* REPL sessions: jsk repl invocations racing with each other, with jsk py,
\* with jsk retain and with jsk cancel; the executed code assigns, produces
\* one result, returns or raises.
ExecuteBrief ==
  \E p \in Procs :
    \/ enter(p)
    \/ exec_assign(p)
    \/ exec_return(p)
    \/ exec_raise(p)
    \/ unwind(p)
    \/ finish(p)

StartRepl ==
  \E p \in Procs :
    \/ jsk_python(p)
    \/ \E c \in Channels : jsk_repl(p, c)

NextRepl ==
  (StartRepl \/ ExecuteBrief \/ ReplStep \/ Retain) /\ Silent

SpecRepl == Init /\ [][NextRepl]_vars

\* Requests: the argument dict and convertables of the executions invoked by
\* messages with mentions.
NextRequests ==
  \/ \E p \in Procs, message \in Messages :
       \/ jsk_python_request(p, message)
       \/ jsk_python_inspect_request(p, message)
       \/ jsk_repl_request(p, message)
  \/ \E message \in Messages : jsk_repl_message_request(message)
  \/ jsk_repl_end_request
  \/ \E v \in Results \ {None} : record_result(v)

SpecRequests == Init /\ [][NextRequests]_vars

\* The dict and convertables that jsk repl builds, for every message that
\* can invoke it and every recorded result.
NextConvertables ==
  \/ \E p \in Procs, message \in Messages : jsk_repl_request(p, message)
  \/ jsk_repl_end_request
  \/ \E v \in Results \ {None} : record_result(v)

SpecConvertables == Init /\ [][NextConvertables]_vars

\* clear_intersection on its own: every binding table and every bindings
\* dict over the names and values of the model; Scope 1 is cleared by
\* coroutine 1, Scope 2 keeps the table as it was before.
Tables == [Names -> {Unbound} \cup Results]

InitClear ==
  /\ \E t, b \in Tables :
       /\ heap = [s \in ScopeIds |-> IF s \in {1, 2} THEN t ELSE EmptyTable]
       /\ frame = [p \in Procs |->
            IF p = 1 THEN [IdleFrame EXCEPT !.pc = "exit", !.scope = 1, !.arg_dict = b]
                     ELSE IdleFrame]
  /\ retain = TRUE /\ _scope = 1 /\ last_result = None
  /\ repl_sessions = {} /\ tasks = <<>> /\ task_count = 0 /\ running = 0
  /\ must_cancel = [p \in Procs |-> FALSE]
  /\ hist = [p \in Procs |-> NoHist]
  /\ reply = NoReply /\ req = NoRequest /\ mail = NoMail

\* scope.clear_intersection(arg_dict), a first and then a second time.
scope_clear_intersection(p) ==
  /\ frame[p].pc \in {"exit", "cleared"}
  /\ heap' = [heap EXCEPT ![frame[p].scope] =
                clear_intersection(@, frame[p].arg_dict)]
  /\ frame' = [frame EXCEPT ![p].pc = IF @ = "exit" THEN "cleared" ELSE "cleared twice"]
  /\ UNCHANGED <<retain, _scope, last_result, repl_sessions, tasks, task_count,
                 running, must_cancel, hist, reply, req, mail>>

NextClear == \E p \in Procs : scope_clear_intersection(p)

SpecClear == InitClear /\ [][NextClear]_vars

\* ------------------------------------------------------------ the filter
\* A channel that is not the session's.
Elsewhere == 0

\* The messages the bot may see while a session waits.
Mails ==
  [author : Procs, channel : Channels \cup {Elsewhere}, dollar : BOOLEAN,
   content : Contents]

\* check(m) of the session of p, with the value of Flags.NO_REPL_PREFX; the
\* author of invocation p is user p.  This one does not look at the channel.
check_any_channel(p, m, no_prefix) ==
  /\ m.author = p
  /\ (IF no_prefix THEN TRUE ELSE m.dollar)

\* check(m) of the session of p, with the value of Flags.NO_REPL_PREFX; the
\* author of invocation p is user p.
check(p, m, no_prefix) ==
  /\ m.author = p
  /\ m.channel = frame[p].chan
  /\ (IF no_prefix THEN TRUE ELSE m.dollar)

\* A message event while the session of p is inside wait_for: wait_for
\* returns it if check accepts it, and goes on waiting otherwise.
on_message(p, m, no_prefix) ==
  /\ running = 0 /\ frame[p].kind = "repl" /\ frame[p].pc = "listen"
  /\ IF check(p, m, no_prefix)
       THEN repl_message(p, m.content)
       ELSE UNCHANGED <<retain, _scope, heap, last_result, repl_sessions, tasks,
                        task_count, frame, running, must_cancel, hist>>
  /\ mail' = [to |-> p, no_prefix |-> no_prefix, m |-> m]
  /\ reply' = NoReply /\ UNCHANGED req

\* Time passes while the session of p is inside wait_for.
tick(p) ==
  /\ running = 0 /\ frame[p].kind = "repl" /\ frame[p].pc = "listen"
  /\ frame[p].waited < MaxIdle
  /\ frame' = [frame EXCEPT ![p].waited = @ + 1]
  /\ UNCHANGED <<retain, _scope, heap, last_result, repl_sessions, tasks,
                 task_count, running, must_cancel, hist>>

\* wait_for raises TimeoutError when its timeout has run out.
repl_timeout_due(p) == frame[p].waited = MaxIdle /\ repl_timeout(p)

\* The filter: a REPL session on a clock, receiving messages of every author,
\* channel and prefix under both values of the no-prefix flag; the code of the
\* accepted ones assigns, returns or raises.
ReplClocked ==
  \E p \in Procs :
    \/ \E c \in Channels : jsk_repl(p, c)
    \/ repl_rejected(p)
    \/ \E ok \in BOOLEAN : repl_banner(p, ok)
    \/ tick(p)
    \/ repl_timeout_due(p)
    \/ \E ok \in BOOLEAN : repl_idle_out(p, ok)
    \/ \E ok \in BOOLEAN : repl_bye(p, ok)
    \/ \E ok \in BOOLEAN : repl_hint(p, ok)

NextFilter ==
  \/ (ReplClocked \/ ExecuteBrief) /\ Silent
  \/ \E p \in Procs, m \in Mails, no_prefix \in BOOLEAN : on_message(p, m, no_prefix)

SpecFilter == Init /\ [][NextFilter]_vars

\* What jsk retain sends back, by its argument and the mode it found.
retain_answer(toggle, mode) ==
  IF toggle = "none"
    THEN IF mode THEN "Variable retention is set to ON."
                 ELSE "Variable retention is set to OFF."
  ELSE IF toggle = "on"
    THEN IF mode THEN "Variable retention is already set to ON."
                 ELSE "Variable retention is ON."
  ELSE IF ~mode THEN "Variable retention is already set to OFF."
                ELSE "Variable retention is OFF."

\* jsk retain with its answer on record.
jsk_retain_request(toggle) ==
  /\ jsk_retain(toggle)
  /\ reply' = [what |-> retain_answer(toggle, retain), n |-> 0,
               asked |-> [str |-> toggle, int |-> 0]]
  /\ UNCHANGED <<req, mail>>

\* Retention: jsk retain requests in every mode, interleaved with jsk py
\* invocations whose code assigns, returns or raises.
NextRetain ==
  \/ ((\E p \in Procs : jsk_python(p)) \/ ExecuteBrief) /\ Silent
  \/ \E toggle \in {"none", "on", "off"} : jsk_retain_request(toggle)

SpecRetain == Init /\ [][NextRetain]_vars

\* ============================================================ claims
Live(p) == frame[p].pc \notin {"idle", "done"}

\* An execution of p is in flight: from the binding of its argument dict to
\* the end of its try statement.
InFlight(p) ==
  frame[p].pc \in {"enter", "drive", "wait", "item", "render", "rendered",
                   "advance", "unwind", "exit"}

\* C1: once an execution has ended (returned, raised, or was cancelled), its
\* finally block has applied clear_intersection with its argument dict to the
\* Scope it used and no key of that dict is left in that Scope; so whenever no
\* execution is in flight, no Scope holds an argument name.
C1_CleanupOnEveryExit ==
  /\ \A p \in Procs :
       hist[p].ended # "" => hist[p].cleared /\ hist[p].left_over = {}
  /\ (\A p \in Procs : ~InFlight(p)) =>
       \A s \in ScopeIds : Keys(heap[s]) \cap ArgNames = {}

\* C1 witness: an execution on the retained Scope was cancelled and has ended,
\* and a name its code assigned is still in that Scope.
C1_Witness ==
  \E p \in Procs :
    /\ hist[p].ended = "cancelled"
    /\ retain
    /\ heap[_scope]["x"] = p

\* C2: when retention goes from OFF to ON the stored Scope becomes an object
\* that is not the one stored before, is empty and is held by no invocation;
\* and while retention is on, the stored Scope holds no binding made by an
\* invocation that began before retention was last switched on.
C2_Step ==
  (~retain /\ retain') =>
     /\ _scope' # _scope
     /\ heap'[_scope'] = EmptyTable
     /\ \A p \in Procs : frame'[p].scope # _scope'

C2_NoStaleBinding ==
  retain =>
    \A n \in {"x", "ctx"} :
      heap[_scope][n] \in Procs => ~hist[heap[_scope][n]].stale

C2_FreshScopeOnEnable == [][C2_Step]_vars /\ []C2_NoStaleBinding

\* C2 witness: retention was switched on while an invocation was in flight on
\* the Scope stored before, which holds a name that invocation assigned; a
\* later invocation runs on the new stored Scope.
C2_Witness ==
  \E p, q \in Procs :
    /\ retain /\ hist[p].stale /\ Live(p)
    /\ frame[p].scope # _scope /\ heap[frame[p].scope]["x"] = p
    /\ ~hist[q].stale /\ Live(q) /\ frame[q].scope = _scope

\* C3: an invocation that starts while retention is on gets the stored Scope,
\* and a name assigned in the stored Scope stays bound while that Scope stays
\* stored; an invocation that starts while retention is off gets a new empty
\* Scope that is not the stored one and that no other invocation holds, so a
\* name one invocation assigned is seen by another only if both got the
\* stored Scope under retention.
C3_Start(p) ==
  (frame[p].pc = "idle" /\ frame'[p].pc # "idle") =>
     IF retain
       THEN frame'[p].scope = _scope
       ELSE /\ frame'[p].scope # _scope
            /\ heap'[frame'[p].scope] = EmptyTable
            /\ \A q \in Procs \ {p} : frame'[q].scope # frame'[p].scope

C3_Kept ==
  \A n \in UserNames :
    (retain /\ retain' /\ _scope' = _scope /\ heap[_scope][n] # Unbound)
       => heap'[_scope][n] # Unbound

C3_Apart ==
  \A p \in Procs :
    Live(p) =>
      /\ ~hist[p].retained =>
           /\ frame[p].scope # _scope
           /\ \A q \in Procs \ {p} : frame[q].scope # frame[p].scope
           /\ \A n \in UserNames : heap[frame[p].scope][n] \in {Unbound, p}
      /\ \A q \in Procs \ {p} :
           (Live(q) /\ frame[q].scope = frame[p].scope)
              => hist[p].retained /\ hist[q].retained

C3_ScopePerMode ==
  [][(\A p \in Procs : C3_Start(p)) /\ C3_Kept]_vars /\ []C3_Apart

\* C3 witness: with retention on, an invocation holds the stored Scope and
\* finds in it a name assigned by an earlier invocation that has returned.
C3_Witness ==
  \E p, q \in Procs :
    /\ p # q /\ retain
    /\ frame[p].pc = "done"
    /\ Live(q) /\ frame[q].scope = _scope
    /\ heap[_scope]["x"] = p

\* ------------------------------------------------------------ streaming
Item(p, i) == hist[p].items[i]

Values(p) == [i \in 1..Len(hist[p].items) |-> hist[p].items[i].v]

NotNone(v) == v # None

\* C4: a produced result equal to None is skipped by each consumer: it is
\* not handed to the rendering, nothing is sent for it, last_result is not
\* set to it, and the loop goes on.
C4_NoneSkipped ==
  \A p \in Procs :
    /\ \A i \in 1..Len(hist[p].items) :
         Item(p, i).v = None => ~Item(p, i).shown
    /\ \A i \in 1..Len(hist[p].rendered) : hist[p].rendered[i] # None
    /\ \A i \in 1..Len(hist[p].stored) : hist[p].stored[i] # None
    /\ hist[p].chan = Len(hist[p].rendered)

\* C5: send is called at most once for an item, and when the executor has
\* been resumed after an item: exactly once, with the Message the rendering
\* returned, if the item was rendered (the resumption value is that Message);
\* not at all if the item was skipped (the executor resumed with no value).
\* Only the latest item can still be awaiting its resumption.
C5_SendOncePerItem ==
  \A p \in Procs :
    \A i \in 1..Len(hist[p].items) :
      /\ Item(p, i).sends <= 1
      /\ i < Len(hist[p].items) => Item(p, i).back # Unbound
      /\ Item(p, i).back # Unbound =>
           IF Item(p, i).shown
             THEN Item(p, i).sends = 1 /\ Item(p, i).back = Msg(Item(p, i).v)
             ELSE Item(p, i).sends = 0 /\ Item(p, i).back = None

\* C5 witness: one execution skipped an item and resumed with no value,
\* then rendered the next one and resumed with the Message sent for it.
C5_Witness ==
  \E p \in Procs :
    /\ Len(hist[p].items) = 2
    /\ ~Item(p, 1).shown /\ Item(p, 1).back = None
    /\ Item(p, 2).shown /\ Item(p, 2).sends = 1
    /\ Item(p, 2).back = Msg(Item(p, 2).v)

\* C6: the rendering receives exactly the non-None produced results, in the
\* order produced, each once; and no result is produced before the one
\* before it was dealt with and the executor resumed.
C6_RenderedInOrder ==
  \A p \in Procs :
    /\ frame[p].pc # "item" => hist[p].rendered = SelectSeq(Values(p), NotNone)
    /\ \A i \in 1..Len(hist[p].items) :
         i < Len(hist[p].items) => Item(p, i).back # Unbound

\* The same for jsk py and REPL executions only.
C6_RenderedInOrderPy ==
  \A p \in Procs :
    frame[p].kind # "pyi" =>
      /\ frame[p].pc # "item" => hist[p].rendered = SelectSeq(Values(p), NotNone)
      /\ \A i \in 1..Len(hist[p].items) :
           i < Len(hist[p].items) => Item(p, i).back # Unbound

\* C7: once jsk cancel has asked for the cancellation of a running execution,
\* that execution hands no further result to the rendering and does not set
\* last_result again; and when it ends, its finally block has removed its
\* argument bindings from its Scope.
C7_Step ==
  \A p \in Procs :
    /\ hist[p].cancels > 0 =>
         /\ Len(hist'[p].rendered) <= Len(hist[p].rendered)
         /\ Len(hist'[p].stored) <= Len(hist[p].stored)
         /\ hist'[p].chan <= hist[p].chan
         /\ frame'[p].pc \in {frame[p].pc, "unwind", "exit"}
    /\ (frame[p].exc = "cancelled" /\ frame[p].pc = "exit" /\ frame'[p].pc # "exit") =>
         /\ hist'[p].ended = "cancelled"
         /\ hist'[p].cleared /\ hist'[p].left_over = {}
         /\ Keys(heap'[frame[p].scope]) \cap Keys(frame[p].arg_dict) = {}

C7_CancelEndsSequence == [][C7_Step]_vars

\* C7 witness: the first execution had a result rendered, was cancelled at a
\* wait point after that and has ended.
C7_Witness ==
  \E p \in Procs :
    /\ hist[p].ended = "cancelled"
    /\ task_count = 1
    /\ last_result # None

\* ------------------------------------------------------------ the registry
IndexListed(n) == \E i \in 1..Len(tasks) : tasks[i].index = n

LatestIndex ==
  CHOOSE n \in 1..task_count : IndexListed(n) /\ \A m \in 1..task_count : IndexListed(m) => m <= n

\* The step is a jsk cancel call (every other step clears `reply`).
CancelStep == reply'.what # ""

\* C8: asking jsk cancel for an integer index (other than -1) that is not in
\* the registry, whether it never was or its task has completed or been
\* cancelled, raises nothing, cancels no task and leaves the registry as it
\* is; and a task that jsk cancel removed still leaves its submit block
\* (finding itself no longer listed) and runs to its end.
C8_Step ==
  /\ (CancelStep /\ reply'.asked.str = "" /\ reply'.asked.int # -1
        /\ ~IndexListed(reply'.asked.int)) =>
       /\ tasks' = tasks
       /\ must_cancel' = must_cancel
       /\ hist' = hist
       /\ reply'.what \in {"Unknown task.", "No tasks to cancel."}
  /\ \A p \in Procs :
       (frame[p].pc = "unwind" /\ frame'[p].pc = "exit" /\ ~Listed(p)) =>
          tasks' = tasks

C8_CanComplete ==
  \A p \in Procs :
    /\ frame[p].pc = "unwind" => running = p /\ ENABLED unwind(p)
    /\ (frame[p].pc = "exit" /\ running = 0) => ENABLED finish(p)

C8_RaceSafeRemoval == [][C8_Step]_vars /\ []C8_CanComplete

\* C8 witness: a task that jsk cancel removed has run to its end, and jsk
\* cancel, asked for an index that was given out earlier and is no longer
\* listed, answered "Unknown task." while another task is registered.
C8_Witness ==
  /\ \E p \in Procs : hist[p].ended = "cancelled"
  /\ reply.what = "Unknown task."
  /\ reply.asked.int \in 1..task_count
  /\ tasks # <<>>

\* C9: jsk cancel with the index of a listed task, or with -1 (the listed task
\* with the highest index), removes exactly that task from the registry and
\* sends it exactly one cancel request; every other task stays listed, in
\* order, and gets no request; and in no state is a listed task one that jsk
\* cancel has asked to cancel.
C9_Target(a) == IF a.int = -1 THEN LatestIndex ELSE a.int

C9_Step ==
  (CancelStep /\ reply'.asked.str = "" /\ tasks # <<>>
     /\ (reply'.asked.int = -1 \/ IndexListed(reply'.asked.int))) =>
    \E i \in 1..Len(tasks) :
      /\ tasks[i].index = C9_Target(reply'.asked)
      /\ tasks' = SelectSeq(tasks, LAMBDA t : t.index # tasks[i].index)
      /\ Len(tasks') = Len(tasks) - 1
      /\ must_cancel' = [must_cancel EXCEPT ![tasks[i].task] = TRUE]
      /\ hist'[tasks[i].task].cancels = hist[tasks[i].task].cancels + 1
      /\ \A q \in Procs \ {tasks[i].task} : hist'[q] = hist[q]
      /\ reply'.what = "Cancelled task." /\ reply'.n = tasks[i].index

C9_NoneListedCancelled ==
  \A i \in 1..Len(tasks) :
    ~must_cancel[tasks[i].task] /\ hist[tasks[i].task].cancels = 0

C9_CancelExactlyOne == [][C9_Step]_vars /\ []C9_NoneListedCancelled

\* C9 witness: of two listed tasks, jsk cancel -1 removed and cancelled the
\* one registered last; the other is still listed and is not cancelled.
C9_Witness ==
  /\ reply.what = "Cancelled task." /\ reply.asked.int = -1
  /\ Len(tasks) = 1 /\ tasks[1].index < reply.n
  /\ ~must_cancel[tasks[1].task]
  /\ \E p \in Procs : must_cancel[p] /\ hist[p].cancels = 1

\* C10: jsk cancel "~" with a non-empty registry sends one cancel request to
\* every listed task and to no other, empties the registry and reports the
\* number of tasks that were listed.
C10_Step ==
  (CancelStep /\ reply'.asked.str = "~" /\ tasks # <<>>) =>
    /\ tasks' = <<>>
    /\ \A p \in Procs :
         /\ must_cancel'[p] = (must_cancel[p] \/ Listed(p))
         /\ hist'[p].cancels = hist[p].cancels + (IF Listed(p) THEN 1 ELSE 0)
    /\ reply'.what = "Cancelled tasks."
    /\ reply'.n = Len(tasks)

C10_CancelAll == [][C10_Step]_vars

\* C10 witness: jsk cancel "~" reported two tasks, both have a cancel request
\* pending and the registry is empty.
C10_Witness ==
  /\ reply.what = "Cancelled tasks." /\ reply.n = 2 /\ reply.asked.str = "~"
  /\ tasks = <<>>
  /\ Cardinality({p \in Procs : must_cancel[p]}) = 2

\* ------------------------------------------------------------ REPL sessions
\* Coroutine p is running a REPL session of channel c: from the marking of
\* the channel to the end of jsk_repl.
InSession(p, c) ==
  /\ frame[p].kind = "repl" /\ frame[p].chan = c
  /\ frame[p].pc \notin {"idle", "done", "reject"}

Sessions(c) == {p \in Procs : InSession(p, c)}

\* The step is the start of jsk repl by p.
ReplInvoked(p) == frame[p].pc = "idle" /\ frame'[p].kind = "repl"

\* C11: no channel ever has two REPL sessions, however jsk repl invocations
\* race, and the channel of a running session is marked; jsk repl in a marked
\* channel starts no session, leaves repl_sessions, the task registry, the
\* Scopes and last_result as they are, and then only returns.
C11_Step ==
  \A p \in Procs :
    /\ (ReplInvoked(p) /\ frame'[p].chan \in repl_sessions) =>
         /\ frame'[p].pc = "reject"
         /\ UNCHANGED <<repl_sessions, tasks, task_count, heap, last_result>>
    /\ (ReplInvoked(p) /\ frame'[p].chan \notin repl_sessions) =>
         frame'[p].pc = "banner" /\ frame'[p].chan \in repl_sessions'
    /\ (frame[p].pc = "reject" /\ frame'[p] # frame[p]) =>
         /\ frame'[p].pc = "done"
         /\ UNCHANGED <<repl_sessions, tasks, task_count, last_result>>

C11_AtMostOne ==
  \A c \in Channels :
    /\ Cardinality(Sessions(c)) <= 1
    /\ Sessions(c) # {} => c \in repl_sessions

C11_OneSessionPerChannel == [][C11_Step]_vars /\ []C11_AtMostOne

\* C11 witness: while one session of the channel is waiting for a message, a
\* second jsk repl in that channel was turned away.
C11_Witness ==
  \E p, q \in Procs :
    /\ p # q
    /\ InSession(p, 1) /\ frame[p].pc = "listen"
    /\ frame[q].pc = "reject" /\ frame[q].chan = 1

\* C12: when the idle timeout of a session fires, the session loop ends and
\* the channel's id is no longer in repl_sessions once jsk_repl has stopped.
C12_Step ==
  \A p \in Procs :
    (frame[p].pc = "idle out" /\ frame'[p] # frame[p]) =>
      /\ frame'[p].pc = "done"
      /\ frame[p].chan \notin repl_sessions'

C12_TimeoutReleases == [][C12_Step]_vars

\* The same when the "Exiting..." notice could be sent: then the channel is
\* released, and jsk repl in it starts a new session.
C12_StepSent ==
  \A p \in Procs :
    /\ (frame[p].pc = "idle out" /\ frame'[p] # frame[p]) =>
         frame'[p].pc = "done"
    /\ (frame[p].pc = "idle out" /\ hist'[p].closed = "timeout") =>
         frame[p].chan \notin repl_sessions'
    /\ (ReplInvoked(p) /\ frame'[p].chan \notin repl_sessions) =>
         frame'[p].pc = "banner"

C12_TimeoutReleasesIfSent == [][C12_StepSent]_vars

\* A session timed out, its notice was sent, and a later jsk repl in the same
\* channel is running a new session.
C12_Restarted ==
  \E p, q \in Procs :
    /\ hist[p].closed = "timeout" /\ frame[p].pc = "done"
    /\ InSession(q, 1) /\ frame[q].pc = "listen"

\* The step is the arrival of a qualifying message in p's session.
Arrives(p, contents) ==
  frame[p].pc = "listen" /\ frame'[p].content \in contents

\* C13: in a session, the message exit() or quit() is not executed: the
\* session says goodbye and, that notice sent, has released the channel when
\* jsk_repl returns; the message exit or quit executes nothing and, the hint
\* sent, the session waits for the next message.
C13_Step ==
  \A p \in Procs :
    /\ Arrives(p, {"exit()", "quit()"}) =>
         frame'[p].pc = "bye" /\ UNCHANGED <<tasks, heap, last_result>>
    /\ (frame[p].pc = "bye" /\ hist'[p].closed = "exit") =>
         frame'[p].pc = "done" /\ frame[p].chan \notin repl_sessions'
    /\ Arrives(p, {"exit", "quit"}) =>
         /\ frame'[p].pc = "hint"
         /\ UNCHANGED <<tasks, heap, last_result, repl_sessions>>
    /\ (frame[p].pc = "hint" /\ frame'[p].pc # "hint"
          /\ hist'[p].closed # "send failed") =>
         /\ frame'[p].pc = "listen"
         /\ UNCHANGED <<tasks, heap, last_result, repl_sessions>>

C13_ExitCommands == [][C13_Step]_vars

\* The same for quit() alone, and for the text the code tests for.
C13_StepQuit ==
  \A p \in Procs :
    /\ Arrives(p, {"ext()", "quit()"}) =>
         frame'[p].pc = "bye" /\ UNCHANGED <<tasks, heap, last_result>>
    /\ (frame[p].pc = "bye" /\ hist'[p].closed = "exit") =>
         frame'[p].pc = "done" /\ frame[p].chan \notin repl_sessions'
    /\ Arrives(p, {"exit", "quit"}) =>
         /\ frame'[p].pc = "hint"
         /\ UNCHANGED <<tasks, heap, last_result, repl_sessions>>
    /\ (frame[p].pc = "hint" /\ frame'[p].pc # "hint"
          /\ hist'[p].closed # "send failed") =>
         /\ frame'[p].pc = "listen"
         /\ UNCHANGED <<tasks, heap, last_result, repl_sessions>>

C13_QuitCommand == [][C13_StepQuit]_vars

\* The message exit() of a session is being executed as code.
C13_ExitExecuted ==
  \E p \in Procs :
    /\ InSession(p, 1) /\ frame[p].content = "exit()"
    /\ frame[p].pc = "drive" /\ Listed(p)

\* ------------------------------------------------------------ argument dict
\* The step begins an execution of p: a jsk py / py_inspect invocation, or a
\* message of a REPL session that is handed to the executor.
Begins(p) == frame[p].pc \in {"idle", "listen"} /\ frame'[p].pc = "enter"

\* C14: whenever an execution begins, `_` in its argument dict is the value
\* last_result has at that moment.
C14_Step ==
  \A p \in Procs :
    Begins(p) => frame'[p].arg_dict["_"] = last_result

C14_UnderscoreIsLastResult == [][C14_Step]_vars

\* The same for jsk py and jsk py_inspect invocations and for the first
\* message of a session.
C14_StepInvocation ==
  \A p \in Procs :
    (Begins(p) /\ (frame[p].pc = "idle" \/ frame[p].msgs = 0)) =>
       frame'[p].arg_dict["_"] = last_result

C14_UnderscoreAtInvocation == [][C14_StepInvocation]_vars

\* A message of a session begins its execution with `_` bound to a value
\* that is not last_result.
C14_StaleUnderscore ==
  \E p \in Procs :
    /\ frame[p].kind = "repl" /\ frame[p].pc = "enter"
    /\ frame[p].arg_dict["_"] # last_result

\* What a message mentions, as a set of entities.
Mentioned(message) ==
  {Entity("user", message.user[i]) : i \in 1..Len(message.user)}
    \cup {Entity("channel", message.channel[i]) : i \in 1..Len(message.channel)}
    \cup {Entity("role", message.role[i]) : i \in 1..Len(message.role)}

\* Every substitution of the table leads to an identifier that the argument
\* dict binds to the entity the substituted text mentions.
Bound(arg_dict, convertables) ==
  \A t \in DOMAIN convertables :
    /\ convertables[t] \in DOMAIN arg_dict.synth
    /\ mention(arg_dict.synth[convertables[t]]) = t

\* C15: the substitutions handed to the executor with an execution request
\* (jsk py, jsk py_inspect, a REPL message) are those of the mentions of the
\* message that triggered it, each identifier bound in its argument dict.
C15_SubstitutionsOfTrigger ==
  req.kind \in {"py", "pyi", "repl"} =>
    /\ DOMAIN req.convertables = {mention(e) : e \in Mentioned(req.trigger)}
    /\ Bound(req.arg_dict, req.convertables)

\* What does hold: jsk py and jsk py_inspect hand over no substitution and
\* no synthetic identifier, whatever the message mentions; a REPL message is
\* executed with the substitutions and identifiers built when jsk repl was
\* invoked, each identifier bound.
C15_AsBuilt ==
  /\ req.kind \in {"py", "pyi"} =>
       req.convertables = EmptyDict /\ req.arg_dict.synth = EmptyDict
  /\ req.kind = "repl" =>
       /\ req.convertables = req.held.convertables
       /\ req.arg_dict.synth = req.held.arg_dict.synth
       /\ Bound(req.arg_dict, req.convertables)

\* jsk py was invoked by a message that mentions a user, and the executor
\* got no substitution for it.
C15_MentionIgnored ==
  /\ req.kind = "py" /\ req.trigger.user # <<>>
  /\ req.convertables = EmptyDict

\* C19: in what jsk_python_get_convertables returns, every identifier of the
\* substitution table is a key of the argument dict, bound to the entity
\* that the table's key mentions; every mention of the message has its
\* substitution; the identifiers of the user, channel and role mentions are
\* pairwise distinct; and `_` is bound to last_result as it was at the call.
C19_ConvertablesBound ==
  req.kind = "session" =>
    /\ Bound(req.arg_dict, req.convertables)
    /\ DOMAIN req.convertables = {mention(e) : e \in Mentioned(req.trigger)}
    /\ Cardinality(DOMAIN req.arg_dict.synth)
         = Len(req.trigger.user) + Len(req.trigger.channel) + Len(req.trigger.role)
    /\ \A k \in DOMAIN req.arg_dict.synth :
         req.arg_dict.synth[k] \in Mentioned(req.trigger)
    /\ req.arg_dict.base["_"] = req.built_with

\* C19 witness: the dict was built for a message that mentions a user and a
\* role with the same id, after a result was recorded.
C19_Witness ==
  /\ req.kind = "session"
  /\ req.trigger.user # <<>> /\ req.trigger.role # <<>>
  /\ req.trigger.user[1] = req.trigger.role[1]
  /\ req.built_with # None
  /\ Cardinality(DOMAIN req.convertables) = 2

\* ------------------------------------------------------------ sharing
\* C16: no two executions that are in flight (started, finally block not yet
\* run) hold the same Scope.
C16_OneExecutionPerScope ==
  \A p, q \in Procs :
    (p # q /\ InFlight(p) /\ InFlight(q)) => frame[p].scope # frame[q].scope

\* The same for executions that got their Scope while retention was off.
C16_ExclusiveWhenEphemeral ==
  \A p, q \in Procs :
    (p # q /\ InFlight(p) /\ InFlight(q)
       /\ (~hist[p].retained \/ ~hist[q].retained)) =>
      frame[p].scope # frame[q].scope

\* An execution is suspended inside its code, and the `ctx` binding that the
\* executor put into its Scope for it has been removed by the cleanup of
\* another execution on the same Scope.
C16_BindingRemovedByOther ==
  \E p \in Procs :
    /\ frame[p].pc = "wait"
    /\ frame[p].arg_dict["ctx"] = p
    /\ heap[frame[p].scope]["ctx"] = Unbound

\* ------------------------------------------------------------ clear_intersection
\* C17: clear_intersection(bindings) removes from the Scope every key that
\* bindings has and leaves every other key with its value, whether or not the
\* two share a key; applied a second time with the same bindings it changes
\* nothing.  (Scope 2 holds the table as it was before the first call.)
C17_ClearIntersection ==
  LET before == heap[2]
      now == heap[1]
      bindings == frame[1].arg_dict
  IN /\ frame[1].pc = "exit" => now = before
     /\ frame[1].pc \in {"cleared", "cleared twice"} =>
          \A n \in Names :
            /\ bindings[n] # Unbound => now[n] = Unbound
            /\ bindings[n] = Unbound => now[n] = before[n]
     /\ clear_intersection(clear_intersection(now, bindings), bindings)
          = clear_intersection(now, bindings)

\* C17 witness: after two calls, a key that the Scope held with another value
\* than bindings has is gone, and a key that bindings does not have is still
\* there with its value.
C17_Witness ==
  /\ frame[1].pc = "cleared twice"
  /\ heap[2]["_"] # Unbound /\ frame[1].arg_dict["_"] # Unbound
  /\ heap[2]["_"] # frame[1].arg_dict["_"]
  /\ heap[1]["_"] = Unbound
  /\ frame[1].arg_dict["x"] = Unbound
  /\ heap[1]["x"] # Unbound /\ heap[1]["x"] = heap[2]["x"]

\* C17, second witness: the Scope and bindings share no key and the call
\* went through, leaving the Scope as it was.
C17_Disjoint ==
  /\ frame[1].pc = "cleared"
  /\ Keys(heap[2]) \cap Keys(frame[1].arg_dict) = {}
  /\ Keys(heap[2]) # {} /\ Keys(frame[1].arg_dict) # {}
  /\ heap[1] = heap[2]

\* ------------------------------------------------------------ session marks
\* C18: a channel is in repl_sessions exactly while a session loop for it is
\* running; however the jsk repl coroutine stops (idle timeout, exit command,
\* cancellation, an exception leaving the loop) the channel is unmarked.
C18_MarkedExactlyWhileRunning ==
  \A c \in Channels : c \in repl_sessions <=> Sessions(c) # {}

\* C18, the half that holds: the channel of a running session is marked.
C18_RunningIsMarked ==
  \A c \in Channels : Sessions(c) # {} => c \in repl_sessions

\* C18, the returns: a session that ended by the idle timeout or the exit
\* command whose farewell was sent has unmarked its channel in that step.
C18_StepReturn ==
  \A p \in Procs :
    (frame[p].kind = "repl" /\ frame'[p].pc = "done"
       /\ hist'[p].closed \in {"timeout", "exit"}) =>
      /\ frame[p].chan \in repl_sessions
      /\ repl_sessions' = repl_sessions \ {frame[p].chan}

C18_ReturnUnmarks == [][C18_StepReturn]_vars

\* C18 counterexample state: the session's coroutine is gone through an
\* exception or a cancellation, and its channel is still marked.
C18_Orphaned ==
  \E c \in Channels, p \in Procs :
    /\ c \in repl_sessions /\ Sessions(c) = {}
    /\ frame[p].pc = "done"
    /\ \/ hist[p].closed = "send failed"
       \/ hist[p].closed = "" /\ hist[p].ended \notin {"", "returned"}

\* C18 counterexample state, by jsk cancel: the session's task was cancelled
\* while its code ran and the channel is still marked.
C18_OrphanedByCancel ==
  \E c \in Channels, p \in Procs :
    /\ c \in repl_sessions /\ Sessions(c) = {}
    /\ frame[p].pc = "done" /\ hist[p].ended = "cancelled"

\* ------------------------------------------------------------ session Scope
\* The session of p goes on over the step.
StaysInSession(p) ==
  /\ \E c \in Channels : InSession(p, c)
  /\ frame'[p].kind = "repl" /\ frame'[p].pc \notin {"idle", "done", "reject"}

C20_Step ==
  \A p \in Procs :
    StaysInSession(p) =>
      /\ frame'[p].scope = frame[p].scope
      /\ \A n \in UserNames :
           heap[frame[p].scope][n] # Unbound => heap'[frame'[p].scope][n] # Unbound

C20_Private ==
  \A p \in Procs :
    ((\E c \in Channels : InSession(p, c)) /\ ~hist[p].retained) =>
      /\ _scope # frame[p].scope
      /\ \A q \in Procs \ {p} :
           frame[q].pc \notin {"idle", "done"} => frame[q].scope # frame[p].scope

\* C20: every message of a REPL session executes against the Scope the session
\* got when it started, whatever the retention mode was then and whatever
\* jsk retain does meanwhile, and a name bound in that Scope by one message is
\* still bound for the later ones; a session started in ephemeral mode has a
\* Scope that is neither the stored one nor the Scope of any other invocation.
C20_OneScopePerSession == []C20_Private /\ [][C20_Step]_vars

\* C20 witness: a session started in ephemeral mode is about to execute its
\* second message, retention was switched on meanwhile, and the name assigned
\* by the first message is bound in the session's Scope.
C20_Witness ==
  \E p \in Procs :
    /\ InSession(p, frame[p].chan) /\ frame[p].pc = "enter" /\ frame[p].msgs = 2
    /\ ~hist[p].retained /\ retain
    /\ \E n \in UserNames : heap[frame[p].scope][n] = p

\* C20, second witness: a session started on the stored Scope executes its
\* second message on it after retention was switched off.
C20_WitnessRetained ==
  \E p \in Procs :
    /\ InSession(p, frame[p].chan) /\ frame[p].pc = "enter" /\ frame[p].msgs = 2
    /\ hist[p].retained /\ ~retain
    /\ \E n \in UserNames : heap[frame[p].scope][n] = p

\* ------------------------------------------------------------ jsk retain
\* The step is a jsk retain call.
RetainStep == reply'.asked.str \in {"none", "on", "off"}

\* The call asks for nothing new: no argument, or the mode that is already set.
Redundant(asked, mode) ==
  asked.str = "none" \/ (asked.str = "on") = mode

C21_Step ==
  /\ (RetainStep /\ Redundant(reply'.asked, retain)) =>
       UNCHANGED <<retain, _scope, heap>>
  /\ _scope' # _scope => (~retain /\ retain')

\* C21: jsk retain with no argument or with the mode already set leaves the
\* retain flag, the stored Scope and every binding as they were; the stored
\* Scope is replaced only when retention goes from OFF to ON.
C21_RedundantRetainIsNoOp == [][C21_Step]_vars

\* C21 witness: jsk retain ON was just answered "already set to ON" while
\* the stored Scope holds a name assigned by an earlier jsk py.
C21_Witness ==
  /\ reply.what = "Variable retention is already set to ON."
  /\ retain
  /\ \E n \in UserNames : heap[_scope][n] # Unbound

\* C21, second witness: jsk retain with no argument was answered in OFF mode.
C21_WitnessStatus ==
  /\ reply.what = "Variable retention is set to OFF."
  /\ ~retain

\* ------------------------------------------------------------ rejected cancel
C22_Step ==
  /\ (CancelStep /\ tasks = <<>>) =>
       /\ reply'.what = "No tasks to cancel."
       /\ UNCHANGED <<tasks, task_count, must_cancel, frame, hist>>
  /\ (CancelStep /\ tasks # <<>> /\ reply'.asked.str \notin {"", "~"}) =>
       /\ reply'.what = "BadArgument"
       /\ UNCHANGED <<tasks, task_count, must_cancel, frame, hist>>

\* C22: a rejected jsk cancel changes nothing.  With an empty registry every
\* index, integer or string, is answered "No tasks to cancel." and nothing is
\* cancelled; with tasks registered, a string index other than "~" raises
\* BadArgument, the registry stays as it is and no task gets a cancel request.
C22_RejectedCancelIsNoOp == [][C22_Step]_vars

\* C22 witness: BadArgument was just raised while a task is registered and
\* suspended, and no cancellation is pending for any task.
C22_Witness ==
  /\ reply.what = "BadArgument" /\ reply.asked.str \notin {"", "~"}
  /\ tasks # <<>>
  /\ \E i \in 1..Len(tasks) : frame[tasks[i].task].pc = "wait"
  /\ \A p \in Procs : ~must_cancel[p] /\ hist[p].cancels = 0

\* C22, second witness: "~" and a string were answered "No tasks to cancel."
\* on an empty registry, after a task had come and gone.
C22_WitnessEmpty ==
  /\ reply.what = "No tasks to cancel." /\ reply.asked.str # ""
  /\ tasks = <<>> /\ task_count > 0

\* ------------------------------------------------------------ message filter
\* The message on record comes from the session's author, in the session's
\* channel, and starts with "$" unless the no-prefix flag is set.
Qualifies(x, chan) ==
  /\ x.m.author = x.to
  /\ x.m.channel = chan
  /\ (x.no_prefix \/ x.m.dollar)

C23_Step ==
  mail' # NoMail =>
    LET p == mail'.to
        consumed == frame'[p].msgs = frame[p].msgs + 1
    IN /\ consumed <=> Qualifies(mail', frame[p].chan)
       /\ ~Qualifies(mail', frame[p].chan) =>
            UNCHANGED <<retain, _scope, heap, last_result, repl_sessions, tasks,
                        task_count, frame, running, must_cancel, hist>>

\* C23: a waiting REPL session takes a message exactly if its author is the
\* session's, its channel is the session's and its content starts with "$" (or
\* the no-prefix flag is set); every other message runs no code, leaves the
\* Scopes, last_result and repl_sessions as they are and leaves the running
\* wait_for with the time it has already waited.
C23_OnlyQualifyingMessages == [][C23_Step]_vars

\* C23 witness: a "$" message of another user in the session's channel was
\* just ignored by a session that has waited for a while and has executed
\* code before.
C23_Witness ==
  /\ mail # NoMail
  /\ mail.m.dollar /\ mail.m.author # mail.to /\ mail.m.channel = frame[mail.to].chan
  /\ frame[mail.to].pc = "listen" /\ frame[mail.to].waited > 0
  /\ frame[mail.to].msgs = 1
  /\ \E n \in UserNames : heap[frame[mail.to].scope][n] # Unbound

\* C23, second witness: with the no-prefix flag set, a message without "$"
\* was just taken and its code is about to run.
C23_WitnessNoPrefix ==
  /\ mail # NoMail /\ mail.no_prefix /\ ~mail.m.dollar
  /\ frame[mail.to].pc = "enter" /\ frame[mail.to].content = "code"

\* C23, third witness: the session timed out although a message that did not
\* qualify arrived while it waited (the next step after it is the timeout).
C23_WitnessDue ==
  /\ mail # NoMail /\ ~Qualifies(mail, frame[mail.to].chan)
  /\ frame[mail.to].pc = "listen" /\ frame[mail.to].waited = MaxIdle
  /\ ENABLED repl_timeout_due(mail.to)

====
